---- MODULE Spec2Model ----
(***************************************************************************)
(* Model of anki-flashcard-builder.py: main() walks the notes of a deck,   *)
(* looks each word up on Cambridge, falls back to VocalWare, downloads     *)
(* and uploads the audio and writes the note's fields through AnkiConnect. *)
(*                                                                         *)
(* Text is a sequence of tokens: a token is one whitespace character, one  *)
(* colon, or a run of other characters.  None (Python's None) is a text    *)
(* that no data equals.                                                    *)
(***************************************************************************)
EXTENDS Integers, Sequences, FiniteSets, TLC

\* ------------------------------------------------------------------ bounds
NumCards == 2

\* ------------------------------------------------------------- text helpers
None == <<"<None>">>
Whitespace == {" ", "\n"}
Colon == {":"}

RECURSIVE LStripChars(_, _)
LStripChars(s, chars) ==
    IF s = <<>> THEN <<>>
    ELSE IF Head(s) \in chars THEN LStripChars(Tail(s), chars) ELSE s

RECURSIVE RStripChars(_, _)
RStripChars(s, chars) ==
    IF s = <<>> THEN <<>>
    ELSE IF s[Len(s)] \in chars THEN RStripChars(SubSeq(s, 1, Len(s) - 1), chars)
    ELSE s

\* str.strip()
Strip(s) == RStripChars(LStripChars(s, Whitespace), Whitespace)

\* "<br>".join(list)
RECURSIVE Join(_, _)
Join(sep, list) ==
    IF list = <<>> THEN <<>>
    ELSE IF Len(list) = 1 THEN list[1]
    ELSE list[1] \o sep \o Join(sep, Tail(list))

\* Python truthiness of an optional string
Truthy(x) == x # None /\ x # <<>>

\* list[:n]
Take(list, n) == SubSeq(list, 1, IF Len(list) < n THEN Len(list) ELSE n)

\* ---------------------------------------------------------------- the data
Words == {"w1", "w2"}
Languages == {"en", "cn"}

\* The values the Audio field of a card can hold when the run starts
InitialAudio == { <<>>, <<" ">>, <<"[sound:", "old.mp3", "]">> }

Cards == 1..NumCards

\* What a dictionary page can contain: the src of the first audio/mpeg
\* source (None if there is none), the text of the definition block of each
\* locale (None if absent) and the texts of the example blocks.
Pages ==
    { [audio_src |-> <<"/media/uk_pron.mp3">>,
       def_blocks |-> [en |-> <<" ", "def", ":", " ">>, cn |-> <<"def", " ", "cn", ":", ":">>],
       example_tags |-> << <<" ", "ex1">>, <<"ex2", "\n">>, <<"ex3">>, <<"ex4">> >>],
      [audio_src |-> None,
       def_blocks |-> [en |-> <<"def">>, cn |-> None],
       example_tags |-> << <<"ex1", " ">> >>],
      [audio_src |-> <<"/media/uk_pron.mp3">>,
       def_blocks |-> [en |-> None, cn |-> <<"def">>],
       example_tags |-> << >>],
      [audio_src |-> None,
       def_blocks |-> [en |-> None, cn |-> None],
       example_tags |-> << <<"ex1">>, <<" ", "ex2">> >>] }

NoInfo == [is_none |-> TRUE, audio_url |-> None, definition |-> None, examples |-> <<>>]

MaxExamples == 3

\* get_cambridge_word_info, the parsing of a fetched page
RECURSIVE StripAll(_)
StripAll(list) ==
    IF list = <<>> THEN <<>> ELSE <<Strip(Head(list))>> \o StripAll(Tail(list))

KeptExamples(example_tags) == Take(example_tags, MaxExamples)

GetCambridgeWordInfo(page, lang) ==
    [is_none |-> FALSE,
     audio_url |-> IF page.audio_src # None
                   THEN <<"https://dictionary.cambridge.org">> \o page.audio_src
                   ELSE None,
     definition |-> IF page.def_blocks[lang] # None
                    THEN RStripChars(Strip(page.def_blocks[lang]), Colon)
                    ELSE <<"No definition found.">>,
     examples |-> StripAll(KeptExamples(page.example_tags))]

\* get_vocalware_tts_url: response.url on HTTP 200
VocalwareUrl(word) == <<"https://www.vocalware.com/tts/gen.php?TXT=", word>>

\* f"{file_name}-{uuid.uuid4()}.mp3": the uuid is the number of uuids drawn
UniqueFilename(tag, n) == <<tag, "-", ToString(n), ".mp3">>

\* The names storeMediaFile can answer with for a requested name
StoreAssignedNames(requested) == { requested, <<"renamed-">> \o requested }

\* ------------------------------------------------ add_word_info_to_note
\* "Audio": f"[sound:{audio_file_name}]"
AudioField(audio_file_name) == <<"[sound:">> \o audio_file_name \o <<"]">>

\* definition falls back to "" when None
DefinitionText(definition) == IF definition = None THEN <<>> ELSE definition

\* examples_text = "<br>".join(examples)
ExamplesText(examples) == Join(<<"<br>">>, examples)

\* the isinstance checks that make add_word_info_to_note return early: the
\* note id must be an int; the definition is a text or None and the examples
\* are a list wherever main calls it
ArgumentsValid(note_id, definition, examples) == note_id \in Int

\* params.note.fields of the updateNoteFields request
UpdateFields(audio_file_name, definition, examples) ==
    [Audio |-> AudioField(audio_file_name),
     Definition |-> DefinitionText(definition),
     Extra |-> ExamplesText(examples)]

\* --------------------------------------------------- the decisions of main
\* the test of the Audio field turned around
HasAudio_Inverted(audio_field) == Strip(audio_field) = <<>>

\* if audio_field.strip():
HasAudio(audio_field) == Strip(audio_field) # <<>>

\* the membership test lost
AlreadyProcessed_Never(word, processed) == FALSE

\* if word in processed_words:
AlreadyProcessed(word, processed) == word \in processed

\* if not audio_url:   (after the Cambridge lookup)
NeedsFallback(url) == ~Truthy(url)

\* if audio_url:
HaveAudioUrl(url) == Truthy(url)

\* the test of the upload's result lost
UploadSucceeded_Always(name) == TRUE

\* if audio_file_name:
UploadSucceeded(name) == Truthy(name)

\* the requested name handed on instead of the store's
NameForNote_Requested(requested, assigned) == requested

\* the file name main hands to add_word_info_to_note
NameForNote(requested, assigned) == assigned

\* processed_words.add(word) moved out of its branch
ProcessedAfter_Always(processed, word, updated) == processed \cup {word}

\* processed_words.add(word) sits in the branch that made the update call
ProcessedAfter(processed, word, updated) ==
    IF updated THEN processed \cup {word} ELSE processed

\* the definition dropped when the entry has no audio URL
DefinitionForNote_AudioOnly(info) ==
    IF Truthy(info.audio_url) THEN info.definition ELSE <<>>

\* the definition and examples main hands to add_word_info_to_note
DefinitionForNote(info) == info.definition
ExamplesForNote(info) == info.examples

\* -------------------------------------------------------------------- state
VARIABLES
    store,               \* AnkiConnect: card id -> fields of its note
    language,            \* args.language
    pc,                  \* position of main
    crash_site,          \* where an uncaught exception left main, or "none"
    cards,               \* result of get_cards
    notes,               \* result of get_notes: the snapshot main iterates
    idx,                 \* index of the note the for loop is at
    processed_words,
    cambridge_word_info, audio_url, word_definition, word_examples,
    file_name, unique_filename, audio_file_name,
    uuids,               \* number of uuid4 values drawn so far
    term,                \* card -> terminal state reached in this run
    events,              \* card -> the calls made for it and their outcomes
    sent,                \* card -> fields of the update request sent for it
    entry,               \* card -> what get_cambridge_word_info returned for it
    assigned             \* card -> what upload_audio_to_anki returned for it

locals == <<cambridge_word_info, audio_url, word_definition, word_examples,
            file_name, unique_filename, audio_file_name>>
history == <<term, events, sent, entry, assigned>>
vars == <<store, language, pc, crash_site, cards, notes, idx, processed_words,
          locals, uuids, history>>

NoFields == [Audio |-> None, Definition |-> None, Extra |-> None]

CardFields == [Word : Words, Audio : InitialAudio, Definition : {<<>>}, Extra : {<<>>}]

\* The state of main's frame and of the observations when the script starts
FreshRun ==
    /\ pc = "get_cards"
    /\ crash_site = "none"
    /\ cards = <<>>
    /\ notes = <<>>
    /\ idx = 1
    /\ processed_words = {}
    /\ cambridge_word_info = NoInfo
    /\ audio_url = None
    /\ word_definition = None
    /\ word_examples = <<>>
    /\ file_name = "unset"
    /\ unique_filename = None
    /\ audio_file_name = None
    /\ term = [c \in Cards |-> "Pending"]
    /\ events = [c \in Cards |-> {}]
    /\ sent = [c \in Cards |-> NoFields]
    /\ entry = [c \in Cards |-> NoInfo]
    /\ assigned = [c \in Cards |-> None]

Init ==
    /\ store \in [Cards -> CardFields]
    /\ language \in Languages
    /\ uuids = 0
    /\ FreshRun

\* ------------------------------------------------------------------ helpers
Word == notes[idx].fields.Word
NoteId == notes[idx].note

Record(evs) == events' = [events EXCEPT ![idx] = @ \cup evs]
Reach(state) == term' = [term EXCEPT ![idx] = state]

\* continue / fall off the end of the loop body: next note
NextNote == idx' = idx + 1 /\ pc' = "loop"

\* an exception nobody catches ends the process
Crash(site) == pc' = "crashed" /\ crash_site' = site

\* ------------------------------------------------------------------ actions
\* get_cards answers with the deck's card ids
GetCards ==
    /\ pc = "get_cards"
    /\ cards' = [k \in 1..NumCards |-> k]
    /\ pc' = "get_notes"
    /\ UNCHANGED <<store, language, crash_site, notes, idx, processed_words,
                   locals, uuids, history>>

\* get_cards: HTTPError, ConnectionError or Timeout.  The handler formats
\* its log line with the name url, which get_cards never binds: NameError
\* leaves the handler before its return None.
GetCardsFails ==
    /\ pc = "get_cards"
    /\ Crash("get_cards")
    /\ UNCHANGED <<store, language, cards, notes, idx, processed_words,
                   locals, uuids, history>>

\* get_notes answers with the fields of the cards as the store has them now
GetNotes ==
    /\ pc = "get_notes"
    /\ notes' = [k \in 1..Len(cards) |-> [note |-> cards[k], fields |-> store[cards[k]]]]
    /\ idx' = 1
    /\ pc' = "loop"
    /\ UNCHANGED <<store, language, crash_site, cards, processed_words,
                   locals, uuids, history>>

\* get_notes has no try: a transport error leaves main
GetNotesFails ==
    /\ pc = "get_notes"
    /\ Crash("get_notes")
    /\ UNCHANGED <<store, language, cards, notes, idx, processed_words,
                   locals, uuids, history>>

\* for note in notes: exhausted
LoopExit ==
    /\ pc = "loop"
    /\ idx > Len(notes)
    /\ pc' = "done"
    /\ UNCHANGED <<store, language, crash_site, cards, notes, idx, processed_words,
                   locals, uuids, history>>

\* Audio already exists for the word: continue
SkipHasAudio ==
    /\ pc = "loop"
    /\ idx <= Len(notes)
    /\ HasAudio(notes[idx].fields.Audio)
    /\ Reach("SkippedHasAudio")
    /\ NextNote
    /\ UNCHANGED <<store, language, crash_site, cards, notes, processed_words,
                   locals, uuids, events, sent, entry, assigned>>

\* Word already processed: continue
SkipDuplicate ==
    /\ pc = "loop"
    /\ idx <= Len(notes)
    /\ ~HasAudio(notes[idx].fields.Audio)
    /\ AlreadyProcessed(Word, processed_words)
    /\ Reach("SkippedDuplicate")
    /\ NextNote
    /\ UNCHANGED <<store, language, crash_site, cards, notes, processed_words,
                   locals, uuids, events, sent, entry, assigned>>

\* neither: main goes on to the Cambridge lookup
BeginWord ==
    /\ pc = "loop"
    /\ idx <= Len(notes)
    /\ ~HasAudio(notes[idx].fields.Audio)
    /\ ~AlreadyProcessed(Word, processed_words)
    /\ pc' = "lookup"
    /\ UNCHANGED <<store, language, crash_site, cards, notes, idx, processed_words,
                   locals, uuids, history>>

\* get_cambridge_word_info returns an entry; main reads its three keys,
\* sets file_name and decides whether the fallback is needed
LookupReturns ==
    /\ pc = "lookup"
    /\ \E page \in Pages :
         LET info == GetCambridgeWordInfo(page, language) IN
         /\ cambridge_word_info' = info
         /\ entry' = [entry EXCEPT ![idx] = info]
         /\ audio_url' = info.audio_url
         /\ word_definition' = DefinitionForNote(info)
         /\ word_examples' = ExamplesForNote(info)
         /\ file_name' = "cambridge"
         /\ Record({"lookup", "lookup_ok"}
                   \cup IF Truthy(info.audio_url) THEN {"lookup_url"} ELSE {})
         /\ pc' = IF NeedsFallback(info.audio_url) THEN "fallback" ELSE "have_url"
    /\ UNCHANGED <<store, language, crash_site, cards, notes, idx, processed_words,
                   unique_filename, audio_file_name, uuids, term, sent, assigned>>

\* get_cambridge_word_info returns None (RequestException on the page; the
\* unsupported-language return cannot happen with the choices of --language);
\* main subscripts it: TypeError, which nothing catches
LookupFails ==
    /\ pc = "lookup"
    /\ cambridge_word_info' = NoInfo
    /\ Record({"lookup"})
    /\ Crash("lookup")
    /\ UNCHANGED <<store, language, cards, notes, idx, processed_words,
                   audio_url, word_definition, word_examples, file_name,
                   unique_filename, audio_file_name, uuids, term, sent, entry, assigned>>

\* get_vocalware_tts_url: HTTP 200 gives response.url, any other status None
Fallback ==
    /\ pc = "fallback"
    /\ \E url \in {VocalwareUrl(Word), None} :
         /\ audio_url' = url
         /\ Record({"fallback"} \cup IF Truthy(url) THEN {"fallback_url"} ELSE {})
    /\ file_name' = "vocalware"
    /\ pc' = "have_url"
    /\ UNCHANGED <<store, language, crash_site, cards, notes, idx, processed_words,
                   cambridge_word_info, word_definition, word_examples,
                   unique_filename, audio_file_name, uuids, term, sent, entry, assigned>>

\* get_vocalware_tts_url has no try: a transport error leaves main
FallbackRaises ==
    /\ pc = "fallback"
    /\ Record({"fallback"})
    /\ Crash("fallback")
    /\ UNCHANGED <<store, language, cards, notes, idx, processed_words,
                   locals, uuids, term, sent, entry, assigned>>

\* if audio_url: draw the uuid of the temporary file
NameFile ==
    /\ pc = "have_url"
    /\ HaveAudioUrl(audio_url)
    /\ uuids' = uuids + 1
    /\ unique_filename' = UniqueFilename(file_name, uuids + 1)
    /\ pc' = "download"
    /\ UNCHANGED <<store, language, crash_site, cards, notes, idx, processed_words,
                   cambridge_word_info, audio_url, word_definition, word_examples,
                   file_name, audio_file_name, history>>

\* else: No audio found for word
NoAudioFound ==
    /\ pc = "have_url"
    /\ ~HaveAudioUrl(audio_url)
    /\ processed_words' = ProcessedAfter(processed_words, Word, FALSE)
    /\ Reach("Aborted")
    /\ NextNote
    /\ UNCHANGED <<store, language, crash_site, cards, notes,
                   locals, uuids, events, sent, entry, assigned>>

\* download_audio returns True
Download ==
    /\ pc = "download"
    /\ Record({"download", "download_ok"})
    /\ pc' = "upload"
    /\ UNCHANGED <<store, language, crash_site, cards, notes, idx, processed_words,
                   locals, uuids, term, sent, entry, assigned>>

\* download_audio catches the RequestException and returns False
DownloadFails ==
    /\ pc = "download"
    /\ Record({"download"})
    /\ processed_words' = ProcessedAfter(processed_words, Word, FALSE)
    /\ Reach("Aborted")
    /\ NextNote
    /\ UNCHANGED <<store, language, crash_site, cards, notes,
                   locals, uuids, sent, entry, assigned>>

\* upload_audio_to_anki returns the store's name, or None on an error in the
\* response or on any exception; main goes on only with a name
Upload ==
    /\ pc = "upload"
    /\ \E name \in StoreAssignedNames(unique_filename) \cup {None} :
         /\ audio_file_name' = name
         /\ assigned' = [assigned EXCEPT ![idx] = name]
         /\ Record({"upload"} \cup IF Truthy(name) THEN {"upload_ok"} ELSE {})
         /\ IF UploadSucceeded(name)
            THEN pc' = "update" /\ UNCHANGED <<idx, term, processed_words>>
            ELSE /\ processed_words' = ProcessedAfter(processed_words, Word, FALSE)
                 /\ Reach("Aborted")
                 /\ NextNote
    /\ UNCHANGED <<store, language, crash_site, cards, notes,
                   cambridge_word_info, audio_url, word_definition, word_examples,
                   file_name, unique_filename, uuids, sent, entry>>

\* add_word_info_to_note returns early on an invalid argument, else sends
\* updateNoteFields; in each case, and whether the response carries an error
\* or not, it returns nothing, and main adds the word
Update ==
    /\ pc = "update"
    /\ LET fields == UpdateFields(NameForNote(unique_filename, audio_file_name),
                                  word_definition, word_examples) IN
       IF ~ArgumentsValid(NoteId, word_definition, word_examples)
       THEN /\ Record({"update"})
            /\ UNCHANGED <<store, sent>>
       ELSE /\ sent' = [sent EXCEPT ![idx] = fields]
            /\ \E accepted \in BOOLEAN :
                 IF accepted
                 THEN /\ store' = [store EXCEPT ![NoteId] =
                             [@ EXCEPT !.Audio = fields.Audio,
                                       !.Definition = fields.Definition,
                                       !.Extra = fields.Extra]]
                      /\ Record({"update", "mutated"})
                 ELSE /\ UNCHANGED store
                      /\ Record({"update", "rejected"})
    /\ processed_words' = ProcessedAfter(processed_words, Word, TRUE)
    /\ Reach("Updated")
    /\ NextNote
    /\ UNCHANGED <<language, crash_site, cards, notes, locals, uuids, entry, assigned>>

\* the post of add_word_info_to_note has no try: a transport error leaves main
UpdateRaises ==
    /\ pc = "update"
    /\ ArgumentsValid(NoteId, word_definition, word_examples)
    /\ sent' = [sent EXCEPT ![idx] =
                  UpdateFields(NameForNote(unique_filename, audio_file_name),
                               word_definition, word_examples)]
    /\ Record({"update"})
    /\ Crash("update")
    /\ UNCHANGED <<store, language, cards, notes, idx, processed_words,
                   locals, uuids, term, entry, assigned>>

Next ==
    \/ GetCards
    \/ GetCardsFails
    \/ GetNotes
    \/ GetNotesFails
    \/ LoopExit
    \/ SkipHasAudio
    \/ SkipDuplicate
    \/ BeginWord
    \/ LookupReturns
    \/ LookupFails
    \/ Fallback
    \/ FallbackRaises
    \/ NameFile
    \/ NoAudioFound
    \/ Download
    \/ DownloadFails
    \/ Upload
    \/ Update
    \/ UpdateRaises

Spec == Init /\ [][Next]_vars

\* ------------------------------------------------------------ vocabulary
Fetched == Len(notes) = NumCards
WordOf(c) == store[c].Word
AudioAtStart(c) == notes[c].fields.Audio
NonWhitespace(text) == \E k \in 1..Len(text) : text[k] \notin Whitespace
Finished == pc \in {"done", "crashed"}
TerminalStates == {"SkippedHasAudio", "SkippedDuplicate", "Updated", "Aborted"}
NetworkCalls == {"lookup", "fallback", "download", "upload", "update"}
Successes == {"lookup_ok", "fallback_url", "download_ok", "upload_ok", "mutated"}
Called(c, what) == what \in events[c]
CardsOf(w, what) == {c \in Cards : WordOf(c) = w /\ what \in events[c]}

\* the examples of an entry with a line-break marker between neighbours
RECURSIVE BrJoined(_)
BrJoined(list) ==
    IF list = <<>> THEN <<>>
    ELSE IF Len(list) = 1 THEN list[1]
    ELSE BrJoined(SubSeq(list, 1, Len(list) - 1)) \o <<"<br>">> \o list[Len(list)]

Markers(text) == Cardinality({k \in 1..Len(text) : text[k] = "<br>"})

\* the fields of card c in the store are those of the update request
Wrote(c) ==
    /\ store[c].Audio = sent[c].Audio
    /\ store[c].Definition = sent[c].Definition
    /\ store[c].Extra = sent[c].Extra

\* ------------------------------------------------------------------ claims

\* C1: add_word_info_to_note is called for a card only if one of the two
\* sources gave a non-empty audio URL, the download succeeded and the upload
\* returned a non-empty file name; an Aborted card has no update call.
C1_UpdateOnlyWithUploadedAudio ==
    \A c \in Cards :
        /\ Called(c, "update") =>
              /\ Called(c, "lookup_url") \/ Called(c, "fallback_url")
              /\ Called(c, "download_ok")
              /\ Called(c, "upload_ok")
              /\ Truthy(assigned[c])
        /\ term[c] = "Aborted" => ~Called(c, "update")

C1_Witness ==
    \E c \in Cards : Called(c, "update") /\ Called(c, "fallback_url") /\ Called(c, "upload_ok")

\* C2: every word in processed_words is the word of a card whose update
\* changed the card in the store.
C2_ProcessedOnlyAfterWrite ==
    \A w \in processed_words : CardsOf(w, "mutated") # {}

\* C3: when the lookup returned None for a card, main went on to the
\* fallback for that card and did not fail.
C3_NullLookupGoesToFallback ==
    Finished =>
        \A c \in Cards :
            (Called(c, "lookup") /\ ~Called(c, "lookup_ok")) =>
                (Called(c, "fallback") /\ crash_site # "lookup")

\* C4: no failure of a word ends the batch: main ends normally with every
\* card in one of the four terminal states.
C4_NoWordFailureEndsBatch ==
    /\ pc = "crashed" => crash_site \in {"get_cards", "get_notes"}
    /\ pc = "done" => \A c \in Cards : term[c] \in TerminalStates

DuplicateSkipped ==
    \A c1, c2 \in Cards :
        (/\ c1 < c2 /\ WordOf(c1) = WordOf(c2)
         /\ term[c1] = "Updated"
         /\ ~NonWhitespace(AudioAtStart(c2))) =>
            /\ term[c2] \in {"Pending", "SkippedDuplicate"}
            /\ events[c2] = {}
            /\ sent[c2] = NoFields

C7_AbortedWordIsRetried ==
    Fetched =>
        /\ processed_words = {WordOf(c) : c \in {d \in Cards : term[d] = "Updated"}}
        /\ \A c \in Cards :
              term[c] = "Aborted" =>
                  /\ store[c] = notes[c].fields
                  /\ ~Called(c, "update")
        /\ \A c1, c2 \in Cards :
              (/\ c1 < c2 /\ WordOf(c1) = WordOf(c2)
               /\ term[c1] = "Aborted"
               /\ ~NonWhitespace(AudioAtStart(c2))
               /\ \A k \in Cards : (k < c2 /\ WordOf(k) = WordOf(c2)) => term[k] # "Updated"
               /\ (idx > c2 \/ (idx = c2 /\ pc \notin {"loop", "lookup"}))) =>
                  /\ term[c2] # "SkippedDuplicate"
                  /\ Called(c2, "lookup")

C7_Witness ==
    \E c1, c2 \in Cards :
        /\ c1 < c2 /\ WordOf(c1) = WordOf(c2)
        /\ term[c1] = "Aborted" /\ Called(c1, "download")
        /\ Called(c2, "lookup_ok")

\* C8: when get_cards fails, main ends normally and makes no call.
C8_ListFailureMeansNoCards ==
    ~(pc = "crashed" /\ crash_site = "get_cards")

\* C9: a card updated with the audio URL of the lookup gets Audio = the
\* playback directive of the name the upload returned, Definition = the
\* definition of the entry, Extra information = its examples, at most 3, in
\* order, joined with line-break markers.
C9_LookupFieldsWritten ==
    \A c \in Cards :
        (Called(c, "lookup_url") /\ Called(c, "update")) =>
            /\ sent[c].Audio = <<"[sound:">> \o assigned[c] \o <<"]">>
            /\ sent[c].Definition = entry[c].definition
            /\ Len(entry[c].examples) <= 3
            /\ sent[c].Extra = BrJoined(entry[c].examples)
            /\ Markers(sent[c].Extra) <= 2
            /\ entry[c].examples = <<>> => sent[c].Extra = <<>>
            /\ Called(c, "mutated") => Wrote(c)

C9_Witness ==
    \E c \in Cards :
        /\ Called(c, "lookup_url") /\ Called(c, "mutated")
        /\ assigned[c] = <<"renamed-", "cambridge", "-", "1", ".mp3">>
        /\ store[c].Audio = <<"[sound:", "renamed-", "cambridge", "-", "1", ".mp3", "]">>
        /\ store[c].Extra = <<"ex1", "<br>", "ex2", "<br>", "ex3">>

\* C10: a card whose Audio holds non-whitespace content is SkippedHasAudio
\* with no call and no change of its fields, and processed_words keeps to
\* the words of the other cards; on a deck of such cards only, a run makes
\* no call, changes no card and leaves processed_words empty.
C10_CardWithAudioUntouched ==
    Fetched =>
        /\ \A c \in Cards :
              NonWhitespace(AudioAtStart(c)) =>
                  /\ term[c] \in {"Pending", "SkippedHasAudio"}
                  /\ (idx > c => term[c] = "SkippedHasAudio")
                  /\ events[c] = {}
                  /\ sent[c] = NoFields
                  /\ store[c] = notes[c].fields
        /\ processed_words \subseteq
              {WordOf(c) : c \in {d \in Cards : ~NonWhitespace(AudioAtStart(d))}}
        /\ (\A c \in Cards : NonWhitespace(AudioAtStart(c))) =>
              /\ \A c \in Cards : events[c] = {} /\ store[c] = notes[c].fields
              /\ processed_words = {}
              /\ uuids = 0
              /\ pc \in {"loop", "done"}

C10_Witness ==
    /\ pc = "done"
    /\ \A c \in Cards : NonWhitespace(AudioAtStart(c)) /\ term[c] = "SkippedHasAudio"
====
